---- MODULE Spec2Model ----
(***************************************************************************)
(* A model of accel::matrix, vector, angle and rectangle (accel/math.hpp). *)
(*                                                                         *)
(* The library is a set of value types with pure operations.  A state of   *)
(* the model holds the operands of one call (a, b, v), the operation that  *)
(* was applied (op) with the indices it was given (index), what it         *)
(* returned (result) and whether the call left the storage of an object or *)
(* signalled a failure (fault).  Init draws the operands; every action is  *)
(* one call of the library.                                                *)
(*                                                                         *)
(* The scalar type T is modelled by exact rationals <<n, d>> (d > 0, in    *)
(* lowest terms), so that the division made by inverse() is a real         *)
(* division; d = 0 stands for the IEEE results of a division by zero       *)
(* (<<1,0>> = +Inf, <<-1,0>> = -Inf, <<0,0>> = NaN).  Floating-point       *)
(* rounding is not modelled.                                               *)
(***************************************************************************)
EXTENDS Integers, Sequences, FiniteSets, TLC

VARIABLES a, b, v, op, index, result, fault

vars == <<a, b, v, op, index, result, fault>>

\* the operands of a call: no operation of the library writes to them
operands == <<a, b, v>>

(***************************************************************************)
(* Bounds of the model.                                                    *)
(***************************************************************************)
\* matrix and vector entries are drawn from -1 .. MaxVal
MaxVal == 1

(***************************************************************************)
(* Scalars.                                                                *)
(***************************************************************************)
Abs(n) == IF n < 0 THEN -n ELSE n

Sgn(n) == IF n < 0 THEN -1 ELSE IF n > 0 THEN 1 ELSE 0

RECURSIVE GCD(_, _)
GCD(m, n) == IF n = 0 THEN m ELSE GCD(n, m % n)

\* the scalar n/d
Norm(n, d) ==
    IF d = 0 THEN <<Sgn(n), 0>>
    ELSE LET s == IF d < 0 THEN -1 ELSE 1
             g == GCD(Abs(n), Abs(d))
         IN  <<(s * n) \div g, (s * d) \div g>>

\* static_cast<T>(n) of an integer literal n
Q(n) == <<n, 1>>

\* T(): the value-initialised scalar
Zero == Q(0)

One == Q(1)

IsInteger(x) == x[2] = 1

ScalarAdd(x, y) ==
    IF IsInteger(x) /\ IsInteger(y) THEN <<x[1] + y[1], 1>>
    ELSE Norm(x[1] * y[2] + y[1] * x[2], x[2] * y[2])

ScalarMul(x, y) ==
    IF IsInteger(x) /\ IsInteger(y) THEN <<x[1] * y[1], 1>>
    ELSE Norm(x[1] * y[1], x[2] * y[2])

ScalarNeg(x) == <<-x[1], x[2]>>

ScalarDiv(x, y) == Norm(x[1] * y[2], x[2] * y[1])

\* what a call that returns no value leaves in result
NoResult == [none |-> TRUE]

(***************************************************************************)
(* matrix<Rows, Columns, T>: storage_type m_data is Rows arrays of Columns *)
(* scalars, one after the other in memory (row-major).                     *)
(***************************************************************************)
\* matrix(Ts... values): m_data{ static_cast<T>(values)... }; the values fill
\* the rows in order and what is not given is value-initialised
Matrix(Rows, Columns, values) ==
    [Rows |-> Rows, Columns |-> Columns,
     m_data |-> [r \in 0 .. Rows - 1 |-> [c \in 0 .. Columns - 1 |->
                    IF r * Columns + c + 1 <= Len(values)
                    THEN values[r * Columns + c + 1] ELSE Zero]]]

\* is m_data[i][j] an element of m: both indices inside their arrays
InBounds(m, i, j) == i \in 0 .. m.Rows - 1 /\ j \in 0 .. m.Columns - 1

\* m_data[i][j] = x, unchecked.  With an index outside its array the write
\* goes to the address i * Columns + j of the storage: another element of m
\* when the address is inside m_data, memory outside m otherwise
Store(m, i, j, x) ==
    LET addr == i * m.Columns + j
    IN  IF InBounds(m, i, j) THEN [m EXCEPT !.m_data[i][j] = x]
        ELSE IF addr < m.Rows * m.Columns
             THEN [m EXCEPT !.m_data[addr \div m.Columns][addr % m.Columns] = x]
             ELSE m

\* operator()(row, column) const, on indices inside the matrix
Get(m, row, column) == m.m_data[row][column]

\* matrix::operator*, the loop over inner: result(row, column), which starts as
\* T() in the value-initialised result, after result(row, column) += ... for
\* every inner from the given one on
RECURSIVE MultiplyInner(_, _, _, _, _, _)
MultiplyInner(lhs, other, row, column, inner, sum) ==
    IF inner = lhs.Columns THEN sum
    ELSE MultiplyInner(lhs, other, row, column, inner + 1,
             ScalarAdd(sum, ScalarMul(lhs.m_data[row][inner], Get(other, inner, column))))

\* a bug of operator*: result(row, column) = ... where the code has +=
RECURSIVE MultiplyInnerAssign(_, _, _, _, _, _)
MultiplyInnerAssign(lhs, other, row, column, inner, sum) ==
    IF inner = lhs.Columns THEN sum
    ELSE MultiplyInnerAssign(lhs, other, row, column, inner + 1,
             ScalarMul(lhs.m_data[row][inner], Get(other, inner, column)))

MultiplyAssign(lhs, other) ==
    [Rows |-> lhs.Rows, Columns |-> other.Columns,
     m_data |-> [row \in 0 .. lhs.Rows - 1 |-> [column \in 0 .. other.Columns - 1 |->
                    MultiplyInnerAssign(lhs, other, row, column, 0, Zero)]]]

\* matrix::operator*: the loops over row and column fill the Rows x N result,
\* each element by its own loop over inner
Multiply(lhs, other) ==
    [Rows |-> lhs.Rows, Columns |-> other.Columns,
     m_data |-> [row \in 0 .. lhs.Rows - 1 |-> [column \in 0 .. other.Columns - 1 |->
                    MultiplyInner(lhs, other, row, column, 0, Zero)]]]

\* matrix::transposed: the result is declared `matrix`, that is Rows x Columns
\* like *this, and is written at m_data[column][row]
RECURSIVE TransposedLoop(_, _, _, _)
TransposedLoop(m, res, row, column) ==
    IF row = m.Rows THEN res
    ELSE IF column = m.Columns THEN TransposedLoop(m, res, row + 1, 0)
    ELSE TransposedLoop(m, Store(res, column, row, m.m_data[row][column]),
                        row, column + 1)

Transposed(m) == TransposedLoop(m, Matrix(m.Rows, m.Columns, <<>>), 0, 0)

\* does transposed() index result.m_data outside one of its arrays
TransposedLeavesBounds(m) ==
    \E row \in 0 .. m.Rows - 1, column \in 0 .. m.Columns - 1 :
        ~InBounds(Matrix(m.Rows, m.Columns, <<>>), column, row)

\* matrix::identity: temp(i, i) = T(1) for every i < Rows
RECURSIVE IdentityLoop(_, _)
IdentityLoop(temp, i) ==
    IF i = temp.Rows THEN temp
    ELSE IdentityLoop(Store(temp, i, i, One), i + 1)

\* a bug of identity: the loop starts at 1
IdentityFromOne(N) == IdentityLoop(Matrix(N, N, <<>>), 1)

Identity(N) == IdentityLoop(Matrix(N, N, <<>>), 0)

(***************************************************************************)
(* cofactor, determinant and inverse of a square matrix.  math.hpp does    *)
(* not hold them (tests/math_tests.cpp calls them): they are modelled from *)
(* section 4.3 of the specification.                                       *)
(***************************************************************************)
\* the scalars of m outside the given row and column, in row-major order
RECURSIVE CofactorValues(_, _, _, _, _, _)
CofactorValues(m, row, column, values, r, c) ==
    IF r = m.Rows THEN values
    ELSE IF c = m.Columns THEN CofactorValues(m, row, column, values, r + 1, 0)
    ELSE CofactorValues(m, row, column,
             IF r # row /\ c # column THEN Append(values, Get(m, r, c)) ELSE values,
             r, c + 1)

\* a bug of cofactor: the row is deleted and the column before the given one
CofactorShifted(m, row, column) ==
    Matrix(m.Rows - 1, m.Columns - 1,
           CofactorValues(m, row, IF column = 0 THEN m.Columns - 1 ELSE column - 1,
                          <<>>, 0, 0))

\* cofactor(row, column): the minor matrix, m without that row and that column
Cofactor(m, row, column) ==
    Matrix(m.Rows - 1, m.Columns - 1, CofactorValues(m, row, column, <<>>, 0, 0))

\* (-1)^n * x
Signed(n, x) == IF n % 2 = 0 THEN x ELSE ScalarNeg(x)

\* a bug of determinant: the terms of the expansion are added without their sign
RECURSIVE DeterminantUnsigned(_)
RECURSIVE ExpandUnsigned(_, _, _)
ExpandUnsigned(m, j, sum) ==
    IF j = m.Columns THEN sum
    ELSE ExpandUnsigned(m, j + 1,
             ScalarAdd(sum, ScalarMul(Get(m, 0, j),
                                      DeterminantUnsigned(Cofactor(m, 0, j)))))

DeterminantUnsigned(m) ==
    IF m.Rows = 1 THEN Get(m, 0, 0) ELSE ExpandUnsigned(m, 0, Zero)

\* determinant(): the sole element of a 1x1 matrix, and otherwise the expansion
\* along row 0, the sum over j of (-1)^j * m(0, j) * cofactor(0, j).determinant()
RECURSIVE Determinant(_)
RECURSIVE Expand(_, _, _)
Expand(m, j, sum) ==
    IF j = m.Columns THEN sum
    ELSE Expand(m, j + 1,
             ScalarAdd(sum, Signed(j, ScalarMul(Get(m, 0, j),
                                                Determinant(Cofactor(m, 0, j))))))

Determinant(m) ==
    IF m.Rows = 1 THEN Get(m, 0, 0) ELSE Expand(m, 0, Zero)

\* the matrix of the signed determinants of the minors of m
CofactorMatrix(m) ==
    [m EXCEPT !.m_data = [i \in 0 .. m.Rows - 1 |-> [j \in 0 .. m.Columns - 1 |->
                             Signed(i + j, Determinant(Cofactor(m, i, j)))]]]

\* every entry of m divided by s
DividedBy(m, s) ==
    [m EXCEPT !.m_data = [i \in 0 .. m.Rows - 1 |-> [j \in 0 .. m.Columns - 1 |->
                             ScalarDiv(Get(m, i, j), s)]]]

\* a bug of inverse: the determinant is not looked at before the division
InverseUnchecked(m) ==
    [value |-> DividedBy(Transposed(CofactorMatrix(m)), Determinant(m)),
     fault |-> "none"]

\* inverse(): the adjugate divided by the determinant, and a failure the caller
\* can tell from a matrix when the determinant is zero
Inverse(m) ==
    IF Determinant(m) = Zero
    THEN [value |-> NoResult, fault |-> "singular"]
    ELSE [value |-> DividedBy(Transposed(CofactorMatrix(m)), Determinant(m)),
          fault |-> "none"]

(***************************************************************************)
(* vector<Dimensions, T>: storage_type m_data is Dimensions scalars.       *)
(***************************************************************************)
\* vector(Ts... values): m_data{ static_cast<T>(values)... }
Vector(Dimensions, values) ==
    [Dimensions |-> Dimensions,
     m_data |-> [i \in 0 .. Dimensions - 1 |->
                    IF i + 1 <= Len(values) THEN values[i + 1] ELSE Zero]]

\* result[i] = result[i] + x through the unchecked operator[].  With
\* i >= Dimensions the scalar read and the scalar written are both outside
\* res.m_data: whatever is read there only goes back there, and res keeps its
\* elements
Accumulate(res, i, x) ==
    IF i \in 0 .. res.Dimensions - 1
    THEN [res EXCEPT !.m_data[i] = ScalarAdd(@, x)]
    ELSE res

\* vector::operator*(const matrix<Rows, Dimensions, T>&): the result is declared
\* `vector`, that is of length Dimensions, and is written at result[row]
RECURSIVE TimesMatrixLoop(_, _, _, _, _)
TimesMatrixLoop(vec, matrix, res, row, column) ==
    IF row = matrix.Rows THEN res
    ELSE IF column = vec.Dimensions THEN TimesMatrixLoop(vec, matrix, res, row + 1, 0)
    ELSE TimesMatrixLoop(vec, matrix,
             Accumulate(res, row, ScalarMul(vec.m_data[column], Get(matrix, row, column))),
             row, column + 1)

\* a bug of vector * matrix: the matrix is read at (column, row)
RECURSIVE TimesMatrixLoopSwapped(_, _, _, _, _)
TimesMatrixLoopSwapped(vec, matrix, res, row, column) ==
    IF row = matrix.Rows THEN res
    ELSE IF column = vec.Dimensions
         THEN TimesMatrixLoopSwapped(vec, matrix, res, row + 1, 0)
    ELSE TimesMatrixLoopSwapped(vec, matrix,
             Accumulate(res, row,
                 ScalarMul(vec.m_data[column],
                           IF InBounds(matrix, column, row)
                           THEN Get(matrix, column, row) ELSE Zero)),
             row, column + 1)

TimesMatrixSwapped(vec, matrix) ==
    TimesMatrixLoopSwapped(vec, matrix, Vector(vec.Dimensions, <<>>), 0, 0)

TimesMatrix(vec, matrix) ==
    TimesMatrixLoop(vec, matrix, Vector(vec.Dimensions, <<>>), 0, 0)

\* does vector * matrix index result.m_data outside the array
TimesMatrixLeavesBounds(vec, matrix) ==
    \E row \in 0 .. matrix.Rows - 1 : row >= vec.Dimensions

\* what a call that indexes outside an array may do: go on with the memory it
\* hits (Store, Accumulate), or be stopped by a checked build of std::array
Outcomes(leavesBounds) == IF leavesBounds THEN {"returns", "traps"} ELSE {"returns"}

(***************************************************************************)
(* Operands.                                                               *)
(***************************************************************************)
Vals == {Q(n) : n \in -1 .. MaxVal}

\* every Rows x Columns matrix with entries in S
Matrices(Rows, Columns, S) ==
    {Matrix(Rows, Columns, values) : values \in [1 .. Rows * Columns -> S]}

IntMatrix(Rows, Columns, ints) ==
    Matrix(Rows, Columns, [i \in 1 .. Len(ints) |-> Q(ints[i])])

\* the value of an operand a call does not take
NoMatrix == Matrix(0, 0, <<>>)

NoVector == [Dimensions |-> 0, m_data |-> <<>>]

\* the operands of the two products of tests/math_tests.cpp
TestMul32 == IntMatrix(3, 2, <<1, 2, 3, 4, 5, 6>>)

TestMul23 == IntMatrix(2, 3, <<1, 2, 3, 4, 5, 6>>)

TestMul23b == IntMatrix(2, 3, <<0, 4, -2, -4, -3, 0>>)

TestMul32b == IntMatrix(3, 2, <<0, 1, 1, -1, 2, 3>>)

\* a call given the indices idx returns: the operands are as they were
ReturnsAt(name, idx, value, flt) ==
    /\ op' = name
    /\ index' = idx
    /\ result' = value
    /\ fault' = flt
    /\ UNCHANGED operands

Returns(name, value, flt) == ReturnsAt(name, <<>>, value, flt)

Fresh == op = "none" /\ index = <<>> /\ result = NoResult /\ fault = "none"

(***************************************************************************)
(* Matrix product: a * b.                                                  *)
(***************************************************************************)
InitMul ==
    /\ Fresh
    /\ v = NoVector
    /\ \/ a \in Matrices(2, 2, Vals) /\ b \in Matrices(2, 2, Vals)
       \/ a \in Matrices(2, 1, Vals) /\ b \in Matrices(1, 2, Vals)
       \/ a \in Matrices(1, 2, Vals) /\ b \in Matrices(2, 1, Vals)
       \/ a \in Matrices(3, 2, Vals) /\ b \in {TestMul23, TestMul23b}
       \/ a \in {TestMul32, TestMul32b} /\ b \in Matrices(2, 3, Vals)
       \/ a \in Matrices(2, 3, Vals) /\ b \in {TestMul32, TestMul32b}
       \/ a \in {TestMul23, TestMul23b} /\ b \in Matrices(3, 2, Vals)
       \/ a = TestMul32 /\ b = TestMul23
       \/ a = TestMul23b /\ b = TestMul32b

MatrixMultiply ==
    /\ op = "none"
    /\ a.Columns = b.Rows
    /\ Returns("multiply", Multiply(a, b), "none")

NextMul == MatrixMultiply

SpecMul == InitMul /\ [][NextMul]_vars

(***************************************************************************)
(* Vector times matrix: v * a.                                             *)
(***************************************************************************)
\* every vector of length Dimensions with entries in S
Vectors(Dimensions, S) ==
    {Vector(Dimensions, values) : values \in [1 .. Dimensions -> S]}

IntVector(ints) == Vector(Len(ints), [i \in 1 .. Len(ints) |-> Q(ints[i])])

\* the operands of the vector * matrix test of tests/math_tests.cpp
TestMatrix3 == IntMatrix(3, 3, <<1, 2, 3, 4, 5, 6, 7, 8, 9>>)

TestVector3 == IntVector(<<1, 2, 3>>)

InitVecMat ==
    /\ Fresh
    /\ b = NoMatrix
    /\ \/ v \in Vectors(2, Vals) /\ a \in Matrices(2, 2, Vals)
       \/ v \in Vectors(3, Vals) /\ a = TestMatrix3
       \/ v = TestVector3 /\ a \in Matrices(3, 3, {Zero, One})
       \/ v \in Vectors(2, Vals) /\ a \in Matrices(3, 2, Vals)
       \/ v \in Vectors(2, Vals) /\ a \in Matrices(1, 2, Vals)
       \/ v \in Vectors(1, Vals) /\ a \in Matrices(2, 1, Vals)
       \/ v \in Vectors(3, Vals) /\ a \in {TestMul23, TestMul23b}

\* v * a, for a matrix a of v.Dimensions columns and any number of rows
VectorTimesMatrix ==
    /\ op = "none"
    /\ a.Columns = v.Dimensions
    /\ \E outcome \in Outcomes(TimesMatrixLeavesBounds(v, a)) :
          Returns("vector_times_matrix",
                  IF outcome = "traps" THEN NoResult ELSE TimesMatrix(v, a),
                  IF TimesMatrixLeavesBounds(v, a) THEN "out_of_bounds" ELSE "none")

NextVecMat == VectorTimesMatrix

SpecVecMat == InitVecMat /\ [][NextVecMat]_vars

(***************************************************************************)
(* Construction and transposition of a matrix a.                           *)
(***************************************************************************)
\* the sizes of matrix2f, matrix3f and matrix4f
SquareSizes == {2, 3, 4}

\* the shapes of the matrices the model constructs
Shapes == {<<1, 2>>, <<2, 1>>, <<2, 2>>, <<2, 3>>, <<3, 2>>, <<3, 3>>, <<4, 4>>}

InitMatrix ==
    /\ Fresh
    /\ b = NoMatrix
    /\ v = NoVector
    /\ \/ a \in Matrices(2, 2, Vals)
       \/ a \in Matrices(1, 2, Vals)
       \/ a \in Matrices(2, 1, Vals)
       \/ a \in Matrices(2, 3, Vals)
       \/ a \in Matrices(3, 2, Vals)
       \/ a \in Matrices(3, 3, {Zero, One})
       \/ a \in {TestMatrix3, Identity(3), Identity(4)}

\* a.transposed()
TransposedCall ==
    /\ op = "none"
    /\ \E outcome \in Outcomes(TransposedLeavesBounds(a)) :
          Returns("transposed",
                  IF outcome = "traps" THEN NoResult ELSE Transposed(a),
                  IF TransposedLeavesBounds(a) THEN "out_of_bounds" ELSE "none")

\* a.transposed().transposed(): the second call is made on what the first returned
TransposedTwice ==
    /\ op = "none"
    /\ \E outcome \in Outcomes(TransposedLeavesBounds(a)) :
          Returns("transposed_twice",
                  IF outcome = "traps" THEN NoResult ELSE Transposed(Transposed(a)),
                  IF TransposedLeavesBounds(a) THEN "out_of_bounds" ELSE "none")

\* matrix<N, N>::identity()
IdentityCall ==
    /\ op = "none"
    /\ \E N \in SquareSizes : Returns("identity", Identity(N), "none")

\* matrix<Rows, Columns> m; the constructor called with no values
DefaultConstruct ==
    /\ op = "none"
    /\ \E shape \in Shapes :
          Returns("matrix", Matrix(shape[1], shape[2], <<>>), "none")

NextMatrix ==
    \/ TransposedCall
    \/ TransposedTwice
    \/ IdentityCall
    \/ DefaultConstruct

SpecMatrix == InitMatrix /\ [][NextMatrix]_vars

(***************************************************************************)
(* Square matrices: a.cofactor(row, column), a.determinant(), a.inverse().  *)
(***************************************************************************)
NVals == {Q(n) : n \in 0 .. MaxVal}

\* the matrix of the inverse test of tests/math_tests.cpp, and its inverse
TestInverse3 == IntMatrix(3, 3, <<1, 2, 3, 0, 1, 4, 5, 6, 0>>)

TestInverse3Inverse == IntMatrix(3, 3, <<-24, 18, 5, 20, -15, -4, -5, 4, 1>>)

\* the minors of TestMatrix3 whose determinants the tests ask for
TestMinors2 ==
    {IntMatrix(2, 2, <<5, 6, 8, 9>>), IntMatrix(2, 2, <<2, 3, 8, 9>>),
     IntMatrix(2, 2, <<2, 3, 5, 6>>)}

\* 4x4 matrices: a shear of the identity, a scaling and a singular matrix
TestMatrices4 ==
    {Identity(4),
     IntMatrix(4, 4, <<1, 2, 0, 0, 0, 1, 3, 0, 0, 0, 1, 4, 5, 0, 0, 1>>),
     IntMatrix(4, 4, <<2, 0, 0, 0, 0, 3, 0, 0, 0, 0, -1, 0, 1, 1, 1, 1>>),
     IntMatrix(4, 4, <<1, 2, 3, 4, 5, 6, 7, 8, 9, 10, 11, 12, 13, 14, 15, 16>>)}

InitSquare ==
    /\ Fresh
    /\ b = NoMatrix
    /\ v = NoVector
    /\ \/ a \in Matrices(1, 1, Vals)
       \/ a \in Matrices(2, 2, Vals)
       \/ a \in Matrices(3, 3, NVals)
       \/ a \in {TestMatrix3, TestInverse3, TestInverse3Inverse}
       \/ a \in TestMinors2
       \/ a \in TestMatrices4

\* a.cofactor(row, column), for a row and a column of a
CofactorCall ==
    /\ op = "none"
    /\ a.Rows >= 2
    /\ \E row \in 0 .. a.Rows - 1, column \in 0 .. a.Columns - 1 :
          ReturnsAt("cofactor", <<row, column>>, Cofactor(a, row, column), "none")

\* a.determinant()
DeterminantCall ==
    /\ op = "none"
    /\ Returns("determinant", Determinant(a), "none")

\* a.inverse()
InverseCall ==
    /\ op = "none"
    /\ a.Rows >= 2
    /\ Returns("inverse", Inverse(a).value, Inverse(a).fault)

\* a * a.inverse(): the product is made when inverse() returned a matrix
MultiplyByInverse ==
    /\ op = "none"
    /\ a.Rows >= 2
    /\ Returns("multiply_by_inverse",
               IF Inverse(a).fault = "none" THEN Multiply(a, Inverse(a).value)
               ELSE NoResult,
               Inverse(a).fault)

NextSquare ==
    \/ CofactorCall
    \/ DeterminantCall
    \/ InverseCall
    \/ MultiplyByInverse

SpecSquare == InitSquare /\ [][NextSquare]_vars

(***************************************************************************)
(* Composition of transforms: (v * a) * b and v * (a * b), for square a, b. *)
(***************************************************************************)
\* 3x3 transforms that do not commute with TestMatrix3
TestTransforms3 ==
    {TestMatrix3, TestInverse3, Identity(3),
     IntMatrix(3, 3, <<0, 1, 0, 0, 0, 1, 1, 0, 0>>)}

InitCompose ==
    /\ Fresh
    /\ \/ v \in Vectors(2, NVals) /\ a \in Matrices(2, 2, NVals)
                                  /\ b \in Matrices(2, 2, NVals)
       \/ v \in Vectors(3, NVals) /\ a \in TestTransforms3 /\ b \in TestTransforms3

\* (v * a) * b: a is applied to v, and b to what that returned
ApplyEach ==
    /\ op = "none"
    /\ a.Rows = a.Columns /\ b.Rows = a.Rows /\ b.Columns = a.Rows
    /\ v.Dimensions = a.Rows
    /\ Returns("apply_each", TimesMatrix(TimesMatrix(v, a), b), "none")

\* v * (a * b): the product of the matrices is applied to v
ApplyProduct ==
    /\ op = "none"
    /\ a.Rows = a.Columns /\ b.Rows = a.Rows /\ b.Columns = a.Rows
    /\ v.Dimensions = a.Rows
    /\ Returns("apply_product", TimesMatrix(v, Multiply(a, b)), "none")

NextCompose ==
    \/ ApplyEach
    \/ ApplyProduct

SpecCompose == InitCompose /\ [][NextCompose]_vars


(***************************************************************************)
(* The 4x4 translation: translate(v), and b * translate(v) for a           *)
(* homogeneous point b = (x, y, z, 1).                                     *)
(***************************************************************************)
\* a bug of translate: the position is written in the last row
TranslateLastRow(position) ==
    Matrix(4, 4,
        <<One, Zero, Zero, Zero,
          Zero, One, Zero, Zero,
          Zero, Zero, One, Zero,
          position.m_data[0], position.m_data[1], position.m_data[2], One>>)

\* matrix::translate(const vector<3, T>& position)
Translate(position) ==
    Matrix(4, 4,
        <<One, Zero, Zero, position.m_data[0],
          Zero, One, Zero, position.m_data[1],
          Zero, Zero, One, position.m_data[2],
          Zero, Zero, Zero, One>>)

\* the point (x, y, z, 1) of a 3-D vector: vector(const vector<3, T>&, T value)
Homogeneous(other) ==
    Vector(4, <<other.m_data[0], other.m_data[1], other.m_data[2], One>>)

\* the operands of the two translate tests of tests/math_tests.cpp
TestPosition == IntVector(<<2, 3, 4>>)

TestOffset == IntVector(<<-16, -16, 0>>)

TestPoint == IntVector(<<0, 32, 0, 1>>)

InitTranslate ==
    /\ Fresh
    /\ a = NoMatrix
    /\ \/ v \in Vectors(3, Vals) /\ b \in {Homogeneous(p) : p \in Vectors(3, Vals)}
       \/ v \in {TestPosition, TestOffset} /\ b = TestPoint

\* matrix4::translate(v)
TranslateCall ==
    /\ op = "none"
    /\ v.Dimensions = 3
    /\ Returns("translate", Translate(v), "none")

\* b * matrix4::translate(v)
TranslatePoint ==
    /\ op = "none"
    /\ v.Dimensions = 3 /\ b.Dimensions = 4
    /\ Returns("translate_point", TimesMatrix(b, Translate(v)), "none")

NextTranslate ==
    \/ TranslateCall
    \/ TranslatePoint

SpecTranslate == InitTranslate /\ [][NextTranslate]_vars

(***************************************************************************)
(* Operations of a vector v with another vector b of the same length:      *)
(* v ^ b, (v ^ b) * v, v.normalized().                                     *)
(***************************************************************************)
ScalarSub(x, y) == ScalarAdd(x, ScalarNeg(y))

\* vector::dot: (... + (m_data[Indices] * other[Indices])), a left fold
RECURSIVE DotTo(_, _, _)
DotTo(vec, other, n) ==
    IF n = 1 THEN ScalarMul(vec.m_data[0], other.m_data[0])
    ELSE ScalarAdd(DotTo(vec, other, n - 1),
                   ScalarMul(vec.m_data[n - 1], other.m_data[n - 1]))

\* vector::operator*(const vector&)
Dot(vec, other) == DotTo(vec, other, vec.Dimensions)

\* a bug of the 2-D cross product: the products are added
Cross2Added(vec, other) ==
    ScalarAdd(ScalarMul(vec.m_data[0], other.m_data[1]),
              ScalarMul(vec.m_data[1], other.m_data[0]))

\* vector::operator^ for Dimensions == 2
Cross2(vec, other) ==
    ScalarSub(ScalarMul(vec.m_data[0], other.m_data[1]),
              ScalarMul(vec.m_data[1], other.m_data[0]))

\* a bug of the 3-D cross product: the second component has the other sign
Cross3Flipped(vec, other) ==
    Vector(3,
        <<ScalarSub(ScalarMul(vec.m_data[1], other.m_data[2]),
                    ScalarMul(vec.m_data[2], other.m_data[1])),
          ScalarSub(ScalarMul(vec.m_data[0], other.m_data[2]),
                    ScalarMul(vec.m_data[2], other.m_data[0])),
          ScalarSub(ScalarMul(vec.m_data[0], other.m_data[1]),
                    ScalarMul(vec.m_data[1], other.m_data[0]))>>)

\* vector::operator^ for Dimensions == 3
Cross3(vec, other) ==
    Vector(3,
        <<ScalarSub(ScalarMul(vec.m_data[1], other.m_data[2]),
                    ScalarMul(vec.m_data[2], other.m_data[1])),
          ScalarSub(ScalarMul(vec.m_data[2], other.m_data[0]),
                    ScalarMul(vec.m_data[0], other.m_data[2])),
          ScalarSub(ScalarMul(vec.m_data[0], other.m_data[1]),
                    ScalarMul(vec.m_data[1], other.m_data[0]))>>)

\* vector::length_squared
LengthSquared(vec) == Dot(vec, vec)

\* the integer square root of n >= 0
ISqrt(n) == CHOOSE r \in 0 .. n : r * r <= n /\ (r + 1) * (r + 1) > n

\* std::sqrt is exact on the squares of rationals; the model takes it there only
IsSquare(x) ==
    /\ x[1] >= 0 /\ x[2] > 0
    /\ ISqrt(x[1]) * ISqrt(x[1]) = x[1]
    /\ ISqrt(x[2]) * ISqrt(x[2]) = x[2]

Sqrt(x) == <<ISqrt(x[1]), ISqrt(x[2])>>

\* vector::length
Length(vec) == Sqrt(LengthSquared(vec))

\* vector::quotient(const ScalarT&): { (m_data[Indices] / scalar)... }
Quotient(vec, scalar) ==
    [Dimensions |-> vec.Dimensions,
     m_data |-> [i \in 0 .. vec.Dimensions - 1 |-> ScalarDiv(vec.m_data[i], scalar)]]

\* a bug of normalized: the length is not compared with 0
NormalizedUnguarded(vec) ==
    [value |-> Quotient(vec, Length(vec)), divisions |-> vec.Dimensions]

\* vector::normalized, with the number of divisions it made
Normalized(vec) ==
    LET value == Length(vec)
    IN  IF value = Zero
        THEN [value |-> Vector(vec.Dimensions, <<>>), divisions |-> 0]
        ELSE [value |-> Quotient(vec, value), divisions |-> vec.Dimensions]

\* the operands of the operator tests of tests/math_tests.cpp, and a vector
\* of length 5
TestVector45 == IntVector(<<4, 5>>)

TestVector32 == IntVector(<<3, 2>>)

TestVector34 == IntVector(<<3, 4>>)

InitVector ==
    /\ Fresh
    /\ a = NoMatrix
    /\ \/ v \in Vectors(2, Vals) /\ b \in Vectors(2, Vals)
       \/ v \in Vectors(3, Vals) /\ b \in Vectors(3, Vals)
       \/ v \in {TestVector45, TestVector32, TestVector34}
             /\ b \in {TestVector45, TestVector32, TestVector34}
       \/ v = TestVector3 /\ b \in Vectors(3, Vals)

\* v ^ b for two vectors of length 2
Cross2Call ==
    /\ op = "none"
    /\ v.Dimensions = 2 /\ b.Dimensions = 2
    /\ Returns("cross2", Cross2(v, b), "none")

\* v ^ b for two vectors of length 3
Cross3Call ==
    /\ op = "none"
    /\ v.Dimensions = 3 /\ b.Dimensions = 3
    /\ Returns("cross3", Cross3(v, b), "none")

\* (v ^ b) * v and (v ^ b) * b
Cross3Dots ==
    /\ op = "none"
    /\ v.Dimensions = 3 /\ b.Dimensions = 3
    /\ Returns("cross3_dots", <<Dot(Cross3(v, b), v), Dot(Cross3(v, b), b)>>, "none")

\* v.normalized()
NormalizedCall ==
    /\ op = "none"
    /\ IsSquare(LengthSquared(v))
    /\ ReturnsAt("normalized", <<Normalized(v).divisions>>, Normalized(v).value, "none")

NextVector ==
    \/ Cross2Call
    \/ Cross3Call
    \/ Cross3Dots
    \/ NormalizedCall

SpecVector == InitVector /\ [][NextVector]_vars

(***************************************************************************)
(* v.swizzle<Ts...>(): the selectors Ts are held in index.                 *)
(***************************************************************************)
\* swizzle_x .. swizzle_w (and swizzle_r .. swizzle_a, which are the same
\* types), swizzle_zero, swizzle_one
Selectors == {"swizzle_x", "swizzle_y", "swizzle_z", "swizzle_w",
              "swizzle_zero", "swizzle_one"}

\* details::has_value<Ts>::value: the selector has a member `value`
HasValue(selector) == selector \in {"swizzle_zero", "swizzle_one"}

\* Ts::value
SelectorValue(selector) == IF selector = "swizzle_zero" THEN 0 ELSE 1

\* Ts::index
SelectorIndex(selector) ==
    CASE selector = "swizzle_x" -> 0
      [] selector = "swizzle_y" -> 1
      [] selector = "swizzle_z" -> 2
      [] selector = "swizzle_w" -> 3

\* static_assert(Ts::index < Dimensions) holds of every selector that is read
SwizzleCompiles(vec, selectors) ==
    \A i \in 1 .. Len(selectors) :
        IF HasValue(selectors[i]) THEN TRUE
        ELSE SelectorIndex(selectors[i]) < vec.Dimensions

\* a bug of swizzle: every selector is taken for an index, the constants for
\* the index their value is
SwizzleByIndexOnly(vec, selectors) ==
    Vector(Len(selectors),
        [i \in 1 .. Len(selectors) |->
            IF HasValue(selectors[i])
            THEN vec.m_data[SelectorValue(selectors[i]) % vec.Dimensions]
            ELSE vec.m_data[SelectorIndex(selectors[i])]])

\* vector::swizzle<Ts...>
Swizzle(vec, selectors) ==
    Vector(Len(selectors),
        [i \in 1 .. Len(selectors) |->
            IF HasValue(selectors[i])
            THEN Q(SelectorValue(selectors[i]))
            ELSE vec.m_data[SelectorIndex(selectors[i])]])

\* the lists of selectors of the model
MaxSelectors == 3

TestSelectors == <<"swizzle_zero", "swizzle_one", "swizzle_x", "swizzle_y">>

SelectorLists ==
    UNION {[1 .. k -> Selectors] : k \in 1 .. MaxSelectors} \cup {TestSelectors}

\* the vector of the swizzle test of tests/math_tests.cpp
TestVector23 == IntVector(<<2, 3>>)

InitSwizzle ==
    /\ Fresh
    /\ a = NoMatrix
    /\ b = NoVector
    /\ v \in Vectors(1, Vals) \cup Vectors(2, Vals) \cup Vectors(3, Vals)
             \cup {TestVector23, TestVector3, TestPoint}

\* v.swizzle<selectors...>(), where it compiles
SwizzleCall ==
    /\ op = "none"
    /\ \E selectors \in SelectorLists :
          /\ SwizzleCompiles(v, selectors)
          /\ ReturnsAt("swizzle", selectors, Swizzle(v, selectors), "none")

NextSwizzle == SwizzleCall

SpecSwizzle == InitSwizzle /\ [][NextSwizzle]_vars

(***************************************************************************)
(* angle<T, UnitTrait>.  The stored value m_angle is a real c * pi^k with  *)
(* c a scalar and k an integer, [coef |-> c, pi |-> k], so that the        *)
(* factors pi/180 and 180/pi of a conversion are exact and are not 1.  The *)
(* angle a is *this, b is the other angle of a call.                       *)
(***************************************************************************)
\* the real c * pi^k; 0 has one representation
Real(c, k) == IF c = Zero THEN [coef |-> Zero, pi |-> 0] ELSE [coef |-> c, pi |-> k]

Number(n) == Real(Q(n), 0)

\* constants::pi, two_pi, rad_to_deg, deg_to_rad
Pi == Real(One, 1)

TwoPi == Real(Q(2), 1)

RadToDeg == Real(Q(180), -1)

DegToRad == Real(Norm(1, 180), 1)

RealMul(x, y) == Real(ScalarMul(x.coef, y.coef), x.pi + y.pi)

\* x + y is taken where it is again c * pi^k
Addable(x, y) == x.pi = y.pi \/ x.coef = Zero \/ y.coef = Zero

RealAdd(x, y) ==
    IF x.coef = Zero THEN y
    ELSE IF y.coef = Zero THEN x
    ELSE Real(ScalarAdd(x.coef, y.coef), x.pi)

ScalarLess(x, y) == x[1] * y[2] < y[1] * x[2]

\* the integer part of a scalar, rounded towards zero
Trunc(x) == Sgn(x[1]) * (Abs(x[1]) \div x[2])

\* std::fmod of two scalars: x - trunc(x / y) * y, of the sign of x
ScalarFmod(x, y) == ScalarSub(x, ScalarMul(Q(Trunc(ScalarDiv(x, y))), y))

\* std::fmod(x, y) is taken for x and y = d * pi^k > 0 of the same power of pi,
\* and for a number x with |x| < 3 * d and y = d * pi, where it is x
FmodDefined(x, y) ==
    \/ x.coef = Zero
    \/ x.pi = y.pi
    \/ /\ x.pi = 0 /\ y.pi = 1
       /\ ScalarLess(<<Abs(x.coef[1]), x.coef[2]>>, ScalarMul(Q(3), y.coef))

Fmod(x, y) ==
    IF x.coef = Zero THEN x
    ELSE IF x.pi = y.pi THEN Real(ScalarFmod(x.coef, y.coef), x.pi)
    ELSE x

\* angle(T value) of a unit
Angle(UnitTrait, value) == [unit |-> UnitTrait, m_angle |-> value]

Radians(value) == Angle("radians", value)

Degrees(value) == Angle("degrees", value)

\* a bug of the converting constructor: the value is copied whatever the unit
ConvertCopied(UnitTrait, other) == Angle(UnitTrait, other.m_angle)

\* angle<T, UnitTrait>::angle(const angle<T, OtherTraitT>& other)
Convert(UnitTrait, other) ==
    IF other.unit = UnitTrait THEN Angle(UnitTrait, other.m_angle)
    ELSE IF UnitTrait = "radians"
         THEN Angle(UnitTrait, RealMul(other.m_angle, DegToRad))
         ELSE Angle(UnitTrait, RealMul(other.m_angle, RadToDeg))

\* angle::operator+=(const angle& other), the argument converted to the unit
\* of *this by the converting constructor
PlusAssign(this, other) ==
    Angle(this.unit, RealAdd(this.m_angle, Convert(this.unit, other).m_angle))

\* angle::normalize
Normalize(this) ==
    IF this.unit = "radians"
    THEN Angle(this.unit, Fmod(this.m_angle, TwoPi))
    ELSE Angle(this.unit, Fmod(this.m_angle, Number(360)))

\* constants::pi and std::asin, acos, atan, atanh, atan2 at the arguments
\* where the result is a rational multiple of pi, in radians
StdArguments ==
    [pi |-> {<<>>},
     asin |-> {<<-1>>, <<0>>, <<1>>},
     acos |-> {<<-1>>, <<0>>, <<1>>},
     atan |-> {<<-1>>, <<0>>, <<1>>},
     atanh |-> {<<0>>},
     atan2 |-> {<<y, x>> : y \in {-1, 0, 1}, x \in {-1, 0, 1}}]

Std(name, args) ==
    CASE name = "pi" -> Pi
      [] name = "asin" -> Real(Norm(args[1], 2), 1)
      [] name = "acos" -> Real(Norm(1 - args[1], 2), 1)
      [] name = "atan" -> Real(Norm(args[1], 4), 1)
      [] name = "atanh" -> Number(0)
      [] name = "atan2" ->
            IF args[2] > 0 THEN Real(Norm(args[1], 4), 1)
            ELSE IF args[2] = 0 THEN Real(Norm(args[1], 2), 1)
            ELSE IF args[1] >= 0 THEN Real(Norm(4 - args[1], 4), 1)
            ELSE Real(Norm(-3, 4), 1)

\* angle<T, UnitTrait>::pi, asin, acos, atan, atanh, atan2: the radians angle
\* is returned as `angle`, the type the factory was called through
Factory(UnitTrait, name, args) == Convert(UnitTrait, Radians(Std(name, args)))

Units == {"radians", "degrees"}

\* the angles of the model: degrees, multiples of pi/2 in radians, and plain
\* numbers of radians
TestDegrees == {-450, -360, -180, -90, -1, 0, 1, 90, 180, 360, 450, 720}

TestHalfTurns == {-5, -4, -2, -1, 0, 1, 2, 3, 4, 5}

TestRadians == {-6, -1, 1, 2, 6}

Angles ==
    {Degrees(Number(n)) : n \in TestDegrees}
        \cup {Radians(Real(Norm(n, 2), 1)) : n \in TestHalfTurns}
        \cup {Radians(Number(n)) : n \in TestRadians}

InitAngle ==
    /\ Fresh
    /\ v = NoVector
    /\ a \in Angles
    /\ b \in Angles

\* angle<T, UnitTrait>(a), for either unit
ConvertCall ==
    /\ op = "none"
    /\ \E UnitTrait \in Units :
          ReturnsAt("convert", <<UnitTrait>>, Convert(UnitTrait, a), "none")

\* a += b
PlusAssignCall ==
    /\ op = "none"
    /\ Addable(a.m_angle, Convert(a.unit, b).m_angle)
    /\ a' = PlusAssign(a, b)
    /\ op' = "plus_assign"
    /\ result' = NoResult
    /\ UNCHANGED <<b, v, index, fault>>

\* a.normalize()
NormalizeCall ==
    /\ op = "none"
    /\ FmodDefined(a.m_angle, IF a.unit = "radians" THEN TwoPi ELSE Number(360))
    /\ a' = Normalize(a)
    /\ op' = "normalize"
    /\ result' = NoResult
    /\ UNCHANGED <<b, v, index, fault>>

\* angle<T, UnitTrait>::pi(), asin(x), acos(x), atan(x), atanh(x), atan2(x, y)
FactoryCall ==
    /\ op = "none"
    /\ \E UnitTrait \in Units : \E name \in DOMAIN StdArguments :
          \E args \in StdArguments[name] :
              ReturnsAt("factory", <<UnitTrait, name, args>>,
                        Factory(UnitTrait, name, args), "none")

NextAngle ==
    \/ ConvertCall
    \/ PlusAssignCall
    \/ NormalizeCall
    \/ FactoryCall

SpecAngle == InitAngle /\ [][NextAngle]_vars

(***************************************************************************)
(* rectangle<T>: storage_type m_values is (top, left, bottom, right).  The *)
(* rectangle a is *this of intersection, b is the other rectangle and the  *)
(* rectangle that offset moves.                                            *)
(***************************************************************************)
\* point<2, T>(x, y) and size<2, T>(width, height): m_data{ values... }
Point2(x, y) == [m_data |-> Vector(2, <<x, y>>).m_data]

Size2(width, height) == [m_data |-> Vector(2, <<width, height>>).m_data]

\* rectangle(T top, T left, T bottom, T right)
Rectangle(top, left, bottom, right) ==
    [m_values |-> Vector(4, <<top, left, bottom, right>>).m_data]

\* rectangle(const point<2, T>& top_left, const size<2, T>& size)
RectangleFrom(top_left, size) ==
    Rectangle(top_left.m_data[1], top_left.m_data[0],
              ScalarAdd(top_left.m_data[1], size.m_data[1]),
              ScalarAdd(top_left.m_data[0], size.m_data[0]))

\* rectangle::offset
Offset(this, size) ==
    Rectangle(ScalarAdd(this.m_values[0], size.m_data[1]),
              ScalarAdd(this.m_values[1], size.m_data[0]),
              ScalarAdd(this.m_values[2], size.m_data[1]),
              ScalarAdd(this.m_values[3], size.m_data[0]))

\* std::max(x, y) is (x < y) ? y : x, std::min(x, y) is (y < x) ? y : x
Max(x, y) == IF ScalarLess(x, y) THEN y ELSE x

Min(x, y) == IF ScalarLess(y, x) THEN y ELSE x

\* a bug of intersection: the rectangle that holds both
IntersectionBounding(this, other) ==
    Rectangle(Min(this.m_values[0], other.m_values[0]),
              Min(this.m_values[1], other.m_values[1]),
              Max(this.m_values[2], other.m_values[2]),
              Max(this.m_values[3], other.m_values[3]))

\* rectangle::intersection
Intersection(this, other) ==
    Rectangle(Max(this.m_values[0], other.m_values[0]),
              Max(this.m_values[1], other.m_values[1]),
              Min(this.m_values[2], other.m_values[2]),
              Min(this.m_values[3], other.m_values[3]))

\* coordinates and sizes are drawn from 0 .. MaxCoord, offsets from -1 .. 1
MaxCoord == 2

Coords == {Q(n) : n \in 0 .. MaxCoord}

Offsets == {Size2(Q(w), Q(h)) : w \in -1 .. 1, h \in -1 .. 1}

\* the rectangle and the offset of the test of tests/math_tests.cpp
TestRectangle == RectangleFrom(Point2(Q(100), Q(100)), Size2(Q(100), Q(100)))

TestSize == Size2(Q(50), Q(50))

InitRectangle ==
    /\ Fresh
    /\ v = NoVector
    /\ \/ /\ a \in {RectangleFrom(Point2(x, y), Size2(w, h)) :
                       x \in {Zero, One}, y \in {Zero, One}, w \in Coords, h \in Coords}
          /\ b \in {Rectangle(t, l, bt, r) :
                       t \in Coords, l \in Coords, bt \in Coords, r \in Coords}
       \/ a = TestRectangle /\ b = a

\* rectangle(point2(x, y), size2(w, h))
ConstructCall ==
    /\ op = "none"
    /\ \E x \in Coords, y \in Coords, w \in Coords, h \in Coords :
          ReturnsAt("construct", <<x, y, w, h>>,
                    RectangleFrom(Point2(x, y), Size2(w, h)), "none")

\* b.offset(size)
OffsetCall ==
    /\ op = "none"
    /\ \E size \in Offsets \cup {TestSize} :
          /\ b' = Offset(b, size)
          /\ index' = <<size.m_data[0], size.m_data[1]>>
    /\ op' = "offset"
    /\ UNCHANGED <<a, v, result, fault>>

\* a.intersection(b), of b as it was drawn or after it was moved
IntersectionCall ==
    /\ op \in {"none", "offset"}
    /\ ReturnsAt("intersection", index, Intersection(a, b), "none")

NextRectangle ==
    \/ ConstructCall
    \/ OffsetCall
    \/ IntersectionCall

SpecRectangle == InitRectangle /\ [][NextRectangle]_vars

(***************************************************************************)
(* Element access: a.at(row, column), a(row, column), a.at(index),         *)
(* a(index), v.at(index), v[index].                                        *)
(***************************************************************************)
\* what an accessor returns: the element, or a failure and no element
Element(x) == [value |-> x, fault |-> "none"]

Failure(flt) == [value |-> NoResult, fault |-> flt]

\* a bug of at(row, column): the indices are not compared with the sizes, and
\* the element at the address row * Columns + column of the storage is read
MatrixAtUnchecked(m, row, column) ==
    LET addr == row * m.Columns + column
    IN  IF addr < m.Rows * m.Columns
        THEN Element(m.m_data[addr \div m.Columns][addr % m.Columns])
        ELSE Element(Zero)

\* matrix::at(row, column): m_data.at(row).at(column), where std::array::at
\* throws std::out_of_range for an index that is not below the size
MatrixAt(m, row, column) ==
    IF row >= m.Rows THEN Failure("out_of_range")
    ELSE IF column >= m.Columns THEN Failure("out_of_range")
    ELSE Element(m.m_data[row][column])

\* vector::at(index): m_data.at(index)
VectorAt(vec, i) ==
    IF i >= vec.Dimensions THEN Failure("out_of_range")
    ELSE Element(vec.m_data[i])

\* vector::operator[](index) const, on an index inside the vector
VectorGet(vec, i) == vec.m_data[i]

\* matrix::at(index) and matrix::operator()(index): `return m_data.at(index)`
\* and `return m_data[index]` in functions that return const T& and T.  The
\* element of m_data is a row, an std::array<T, Columns>, which does not
\* convert to T: the functions are templates' members, compiled when they are
\* called, and a program that calls one of them is ill-formed
FlatAt(m, i) == Failure("ill_formed")

FlatGet(m, i) == Failure("ill_formed")

\* indices are drawn from 0 .. MaxIndex
MaxIndex == 6

\* a 2 x 3 matrix of six different scalars
TestMatrix23 == IntMatrix(2, 3, <<1, 2, 3, 4, 5, 6>>)

InitAccess ==
    /\ Fresh
    /\ b = NoMatrix
    /\ \/ a \in Matrices(2, 2, Vals) /\ v \in Vectors(2, Vals)
       \/ a \in {TestMatrix23, TestMul32, TestMatrix3}
             /\ v \in {TestVector3, TestVector23, TestPoint}
       \/ a \in Matrices(1, 2, Vals) \cup Matrices(2, 1, Vals) /\ v \in Vectors(1, Vals)

\* a.at(row, column)
MatrixAtCall ==
    /\ op = "none"
    /\ \E row \in 0 .. MaxIndex, column \in 0 .. MaxIndex :
          ReturnsAt("matrix_at", <<row, column>>,
                    MatrixAt(a, row, column).value, MatrixAt(a, row, column).fault)

\* a(row, column), the caller having verified the indices
MatrixGetCall ==
    /\ op = "none"
    /\ \E row \in 0 .. MaxIndex, column \in 0 .. MaxIndex :
          /\ InBounds(a, row, column)
          /\ ReturnsAt("matrix_get", <<row, column>>, Get(a, row, column), "none")

\* v.at(index)
VectorAtCall ==
    /\ op = "none"
    /\ \E i \in 0 .. MaxIndex :
          ReturnsAt("vector_at", <<i>>, VectorAt(v, i).value, VectorAt(v, i).fault)

\* v[index], the caller having verified the index
VectorGetCall ==
    /\ op = "none"
    /\ \E i \in 0 .. MaxIndex :
          /\ i < v.Dimensions
          /\ ReturnsAt("vector_get", <<i>>, VectorGet(v, i), "none")

\* a.at(index)
FlatAtCall ==
    /\ op = "none"
    /\ \E i \in 0 .. MaxIndex :
          ReturnsAt("flat_at", <<i>>, FlatAt(a, i).value, FlatAt(a, i).fault)

\* a(index)
FlatGetCall ==
    /\ op = "none"
    /\ \E i \in 0 .. MaxIndex :
          ReturnsAt("flat_get", <<i>>, FlatGet(a, i).value, FlatGet(a, i).fault)

NextAccess ==
    \/ MatrixAtCall
    \/ MatrixGetCall
    \/ VectorAtCall
    \/ VectorGetCall
    \/ FlatAtCall
    \/ FlatGetCall

SpecAccess == InitAccess /\ [][NextAccess]_vars

(***************************************************************************)
(* Assignment of angles: a = b.  For two angles of the same unit it is the *)
(* defaulted operator=; for two units it is the template operator=, whose  *)
(* frames on the stack are counted in index.                               *)
(***************************************************************************)
\* the frames of operator= the stack holds before it is exhausted
MaxFrames == 3

\* the operator= that `x = y` calls for y of the unit OtherTrait and x of the
\* unit UnitTrait: the template takes y as it is, the defaulted ones need a
\* conversion of y, so the template is chosen whenever the units differ
AssignOverload(UnitTrait, OtherTrait) ==
    IF OtherTrait = UnitTrait THEN "defaulted" ELSE "template"

\* angle& operator=(const angle&) = default
CopyAssign ==
    /\ op = "none"
    /\ AssignOverload(a.unit, b.unit) = "defaulted"
    /\ a' = b
    /\ op' = "assigned"
    /\ result' = b
    /\ UNCHANGED <<b, v, index, fault>>

\* a = b for two units: the template operator= is entered
CrossAssignCall ==
    /\ op = "none"
    /\ AssignOverload(a.unit, b.unit) = "template"
    /\ op' = "cross_assign"
    /\ index' = <<1>>
    /\ UNCHANGED <<a, b, v, result, fault>>

\* the body, *this = angle<T, OtherTrait>(other): the temporary is a copy of
\* other in the unit of other, and its assignment to *this is again the
\* template operator=, entered in a new frame; *this is not written
CrossAssignRecurse ==
    /\ op = "cross_assign"
    /\ index[1] < MaxFrames
    /\ AssignOverload(a.unit, Convert(b.unit, b).unit) = "template"
    /\ index' = <<index[1] + 1>>
    /\ UNCHANGED <<a, b, v, op, result, fault>>

\* no frame is left for the next call: the program is stopped
CrossAssignOverflow ==
    /\ op = "cross_assign"
    /\ index[1] = MaxFrames
    /\ op' = "crashed"
    /\ fault' = "stack_overflow"
    /\ UNCHANGED <<a, b, v, index, result>>

InitAssign ==
    /\ Fresh
    /\ v = NoVector
    /\ a \in Angles
    /\ b \in Angles

NextAssign ==
    \/ CopyAssign
    \/ CrossAssignCall
    \/ CrossAssignRecurse
    \/ CrossAssignOverflow

SpecAssign == InitAssign /\ [][NextAssign]_vars

(***************************************************************************)
(* a.intersects(b) for rectangle<float> and rectangle<unsigned int>.  An   *)
(* unsigned value n is held as the scalar Q(s) of the integer s in         *)
(* -2^31 .. 2^31 - 1 with s = n modulo 2^32: sums and differences of small *)
(* values are then the sums and differences of the integers, a difference  *)
(* below zero standing for the value 2^32 less than it, and only the order *)
(* is another one.                                                         *)
(***************************************************************************)
\* rectanglef and rectangleu
ScalarTypes == {"float", "unsigned"}

\* x < y of two unsigned values: the ones held as negative integers are the
\* largest
UnsignedLess(x, y) ==
    IF (x[1] >= 0) = (y[1] >= 0) THEN x[1] < y[1] ELSE y[1] < 0

\* x > y in the type T
Greater(T, x, y) == IF T = "unsigned" THEN UnsignedLess(y, x) ELSE ScalarLess(y, x)

\* rectangle::height, rectangle::width
Height(this) == ScalarSub(this.m_values[2], this.m_values[0])

Width(this) == ScalarSub(this.m_values[3], this.m_values[1])

\* rectangle::valid
Valid(T, this) == Greater(T, Width(this), Zero) /\ Greater(T, Height(this), Zero)

\* rectangle::intersects
Intersects(T, this, other) == Valid(T, Intersection(this, other))

\* the sides of a rectangle<T> of the model: an unsigned side is below 2^31,
\* where std::max and std::min order it as the integers are ordered
HasSidesOf(T, this) ==
    T = "unsigned" => \A i \in 0 .. 3 : this.m_values[i][1] >= 0

\* a.intersects(b), of b as it was drawn or after it was moved
IntersectsCall ==
    /\ op \in {"none", "offset"}
    /\ \E T \in ScalarTypes :
          /\ HasSidesOf(T, a) /\ HasSidesOf(T, b)
          /\ ReturnsAt("intersects", <<T>>, Intersects(T, a, b), "none")

NextIntersects ==
    \/ OffsetCall
    \/ IntersectsCall

SpecIntersects == InitRectangle /\ [][NextIntersects]_vars

(***************************************************************************)
(* The compound assignment v *= b of two vectors of the same length.       *)
(***************************************************************************)
\* vector(const T& value): m_data.fill(value)
Fill(Dimensions, value) ==
    [Dimensions |-> Dimensions, m_data |-> [i \in 0 .. Dimensions - 1 |-> value]]

\* a bug of operator*=: the scalar is taken by vector(Ts... values), which
\* sets the first component and value-initialises the others
TimesAssignFirst(this, other) == Vector(this.Dimensions, <<Dot(this, other)>>)

\* vector::operator*=: *this = dot(other.m_data, ...), the T that dot returns
\* converted to a vector by vector(const T&), the non-template constructor
\* that takes a T as it is
TimesAssign(this, other) == Fill(this.Dimensions, Dot(this, other))

\* v *= b
TimesAssignCall ==
    /\ op = "none"
    /\ v.Dimensions = b.Dimensions
    /\ v' = TimesAssign(v, b)
    /\ op' = "times_assign"
    /\ result' = TimesAssign(v, b)
    /\ UNCHANGED <<a, b, index, fault>>

NextTimesAssign == TimesAssignCall

SpecTimesAssign == InitVector /\ [][NextTimesAssign]_vars

(***************************************************************************)
(* The claims.  The operands are integers in the specifications of C1-C4   *)
(* and C9, C10, so what a claim expects is stated over Int.                *)
(***************************************************************************)
\* f[0] + ... + f[n - 1]
RECURSIVE SumTo(_, _)
SumTo(f, n) == IF n = 0 THEN 0 ELSE SumTo(f, n - 1) + f[n - 1]

\* the integer held at m(i, j), and at vec[i]
Entry(m, i, j) == m.m_data[i][j][1]

Component(vec, i) == vec.m_data[i][1]

\* x is a value of type matrix<Rows, Columns>
IsMatrixOf(x, Rows, Columns) ==
    /\ DOMAIN x = {"Rows", "Columns", "m_data"}
    /\ x.Rows = Rows
    /\ x.Columns = Columns
    /\ DOMAIN x.m_data = 0 .. Rows - 1
    /\ \A r \in 0 .. Rows - 1 : DOMAIN x.m_data[r] = 0 .. Columns - 1

\* x is a value of type vector<Dimensions>
IsVectorOf(x, Dimensions) ==
    /\ DOMAIN x = {"Dimensions", "m_data"}
    /\ x.Dimensions = Dimensions
    /\ DOMAIN x.m_data = 0 .. Dimensions - 1

\* p is the R x N matrix of the sums over k of x(i, k) * y(k, j)
IsProduct(x, y, p) ==
    /\ IsMatrixOf(p, x.Rows, y.Columns)
    /\ \A i \in 0 .. x.Rows - 1, j \in 0 .. y.Columns - 1 :
          p.m_data[i][j] =
              Q(SumTo([k \in 0 .. x.Columns - 1 |-> Entry(x, i, k) * Entry(y, k, j)],
                      x.Columns))

\* C1: a * b of a Matrix<R,C> a and a Matrix<C,N> b is the R x N matrix whose
\* entry (i, j) is the sum over k of a(i,k) * b(k,j), for the square and the
\* non-square shapes, and the call leaves a and b as they were.
C1_ProductIsRowsByColumns ==
    [][op' = "multiply" /\ op = "none"
         => a' = a /\ b' = b /\ fault' = "none" /\ IsProduct(a, b, result')]_vars

\* C1 witness: the 3x2 by 2x3 product of the tests has returned its 3x3 matrix
C1_Witness ==
    /\ op = "multiply"
    /\ a = TestMul32
    /\ b = TestMul23
    /\ result = IntMatrix(3, 3, <<9, 12, 15, 19, 26, 33, 29, 40, 51>>)

\* r is the vector of length matrix.Rows of the sums over c of vec[c] * matrix(r, c)
IsTimesMatrix(vec, matrix, r) ==
    /\ IsVectorOf(r, matrix.Rows)
    /\ \A row \in 0 .. matrix.Rows - 1 :
          r.m_data[row] =
              Q(SumTo([c \in 0 .. vec.Dimensions - 1 |->
                          Component(vec, c) * Entry(matrix, row, c)], vec.Dimensions))

\* C2: v * m of a vector v of length C and an R x C matrix m is the vector of
\* length R whose component r is the sum over c of v[c] * m(r,c), also when R
\* differs from C, and no component outside the result is read or written.
C2_VectorTimesMatrixHasRowsComponents ==
    op = "vector_times_matrix" => fault = "none" /\ IsTimesMatrix(v, a, result)

\* C2, square matrices only: what the code does keep
C2_SquareVectorTimesMatrix ==
    op = "vector_times_matrix" /\ a.Rows = a.Columns
        => fault = "none" /\ IsTimesMatrix(v, a, result)

\* t is the Columns x Rows matrix with t(c, r) = m(r, c)
IsTransposeOf(m, t) ==
    /\ IsMatrixOf(t, m.Columns, m.Rows)
    /\ \A r \in 0 .. m.Rows - 1, c \in 0 .. m.Columns - 1 :
          t.m_data[c][r] = m.m_data[r][c]

\* C3: m.transposed() of a Rows x Columns matrix m, square or not, is the
\* Columns x Rows matrix t with t(c,r) = m(r,c), every element access stays
\* inside the storage of t, and m is left unchanged.
C3_TransposedSwapsRowsAndColumns ==
    [][op' = "transposed" /\ op = "none"
         => a' = a /\ fault' = "none" /\ IsTransposeOf(a, result')]_vars

\* C4: m.transposed().transposed() == m for every matrix m of any shape.
C4_TransposedTwiceIsSame ==
    op = "transposed_twice" => fault = "none" /\ result = a

\* C9: identity() of size N in {2,3,4} is the N x N matrix with 1 at (i,i) and
\* 0 elsewhere, and a default-constructed matrix has every entry 0.
C9_IdentityAndDefault ==
    /\ op = "identity"
          => /\ result.Rows \in SquareSizes
             /\ IsMatrixOf(result, result.Rows, result.Rows)
             /\ \A i, j \in 0 .. result.Rows - 1 :
                   result.m_data[i][j] = IF i = j THEN <<1, 1>> ELSE <<0, 1>>
    /\ op = "matrix"
          => /\ <<result.Rows, result.Columns>> \in Shapes
             /\ IsMatrixOf(result, result.Rows, result.Columns)
             /\ \A i \in 0 .. result.Rows - 1, j \in 0 .. result.Columns - 1 :
                   result.m_data[i][j] = <<0, 1>>

\* C9 witness: identity() has returned the 4x4 identity matrix of the tests
C9_Witness ==
    /\ op = "identity"
    /\ result = IntMatrix(4, 4, <<1, 0, 0, 0, 0, 1, 0, 0, 0, 0, 1, 0, 0, 0, 0, 1>>)

\* the matrix m without a row and a column, by the place of each element kept
Minor(m, row, column) ==
    [Rows |-> m.Rows - 1, Columns |-> m.Columns - 1,
     m_data |-> [i \in 0 .. m.Rows - 2 |-> [j \in 0 .. m.Columns - 2 |->
                    m.m_data[IF i < row THEN i ELSE i + 1]
                            [IF j < column THEN j ELSE j + 1]]]]

\* the determinant of an integer matrix of size 1 to 4 in closed form: a*d - b*c,
\* the rule of Sarrus, and for 4x4 the expansion along column 0
Det2(m) == Entry(m, 0, 0) * Entry(m, 1, 1) - Entry(m, 0, 1) * Entry(m, 1, 0)

Det3(m) ==
    Entry(m, 0, 0) * Entry(m, 1, 1) * Entry(m, 2, 2)
    + Entry(m, 0, 1) * Entry(m, 1, 2) * Entry(m, 2, 0)
    + Entry(m, 0, 2) * Entry(m, 1, 0) * Entry(m, 2, 1)
    - Entry(m, 0, 2) * Entry(m, 1, 1) * Entry(m, 2, 0)
    - Entry(m, 0, 1) * Entry(m, 1, 0) * Entry(m, 2, 2)
    - Entry(m, 0, 0) * Entry(m, 1, 2) * Entry(m, 2, 1)

ClosedDet(m) ==
    IF m.Rows = 1 THEN Entry(m, 0, 0)
    ELSE IF m.Rows = 2 THEN Det2(m)
    ELSE IF m.Rows = 3 THEN Det3(m)
    ELSE SumTo([i \in 0 .. 3 |->
                   (IF i % 2 = 0 THEN 1 ELSE -1) * Entry(m, i, 0) * Det3(Minor(m, i, 0))], 4)

\* x is the N x N matrix with 1 on the diagonal and 0 elsewhere
IsIdentity(x, N) ==
    /\ IsMatrixOf(x, N, N)
    /\ \A i, j \in 0 .. N - 1 : x.m_data[i][j] = IF i = j THEN <<1, 1>> ELSE <<0, 1>>

\* x is the transpose of the matrix of the signed determinants of the minors of
\* m, divided by the determinant of m
IsAdjugateOverDeterminant(m, x) ==
    /\ IsMatrixOf(x, m.Rows, m.Rows)
    /\ \A i, j \in 0 .. m.Rows - 1 :
          x.m_data[i][j] =
              Norm((IF (i + j) % 2 = 0 THEN 1 ELSE -1) * ClosedDet(Minor(m, j, i)),
                   ClosedDet(m))

\* C5: for every 2x2 and 3x3 matrix m with a non-zero determinant, m.inverse()
\* is the transposed matrix of signed cofactor determinants divided by the
\* determinant and m * m.inverse() equals identity(); the inverse of identity is
\* identity, and that of [[1,2,3],[0,1,4],[5,6,0]] is
\* [[-24,18,5],[20,-15,-4],[-5,4,1]].
C5_InverseTimesMatrixIsIdentity ==
    /\ op = "inverse" /\ a.Rows \in {2, 3} /\ ClosedDet(a) # 0
          => /\ fault = "none"
             /\ IsAdjugateOverDeterminant(a, result)
             /\ IsIdentity(a, a.Rows) => result = a
             /\ a = TestInverse3 => result = TestInverse3Inverse
    /\ op = "multiply_by_inverse" /\ a.Rows \in {2, 3} /\ ClosedDet(a) # 0
          => fault = "none" /\ IsIdentity(result, a.Rows)

\* C5 witness: a 3x3 matrix of determinant 2, whose inverse holds halves, has
\* been multiplied by its inverse
C5_Witness ==
    /\ op = "multiply_by_inverse"
    /\ a.Rows = 3
    /\ ClosedDet(a) = 2
    /\ fault = "none"
    /\ IsIdentity(result, 3)

\* C6: inverse() of a square matrix whose determinant is zero signals a failure
\* the caller can tell at that call, and returns no matrix.
C6_SingularInverseFails ==
    op = "inverse" /\ ClosedDet(a) = 0 => fault = "singular" /\ result = NoResult

\* C6 witness: inverse() was called on the singular [[1,2,3],[4,5,6],[7,8,9]]
C6_Witness ==
    /\ op = "inverse"
    /\ a = TestMatrix3
    /\ fault = "singular"

\* C7: determinant() of a 1x1 matrix is its element, and of an N x N matrix
\* with N > 1 the sum over j of (-1)^j * m(0,j) * the determinant of m without
\* row 0 and column j; for 2x2 [[a,b],[c,d]] that is a*d - b*c.
C7_DeterminantExpandsAlongRowZero ==
    op = "determinant"
        => /\ fault = "none"
           /\ a.Rows = 1 => result = a.m_data[0][0]
           /\ a.Rows > 1 =>
                 result = Q(SumTo([j \in 0 .. a.Rows - 1 |->
                                      (IF j % 2 = 0 THEN 1 ELSE -1) * Entry(a, 0, j)
                                          * ClosedDet(Minor(a, 0, j))], a.Rows))
           /\ a.Rows = 2 => result = Q(Det2(a))

\* C7 witness: the determinant of [[2,3],[8,9]] was asked for and is -6
C7_Witness ==
    /\ op = "determinant"
    /\ a = IntMatrix(2, 2, <<2, 3, 8, 9>>)
    /\ result = Q(-6)

\* C8: m.cofactor(row, column) of an N x N matrix m, row and column below N, is
\* the (N-1) x (N-1) matrix of the entries of m outside that row and that
\* column, in their original order.
C8_CofactorDeletesRowAndColumn ==
    op = "cofactor"
        => /\ fault = "none"
           /\ IsMatrixOf(result, a.Rows - 1, a.Rows - 1)
           /\ result = Minor(a, index[1], index[2])

\* C8 witness: cofactor(1, 0) of [[1,2,3],[4,5,6],[7,8,9]] returned [[2,3],[8,9]]
C8_Witness ==
    /\ op = "cofactor"
    /\ a = TestMatrix3
    /\ index = <<1, 0>>
    /\ result = IntMatrix(2, 2, <<2, 3, 8, 9>>)

\* r is vec with the transform first and then the transform second applied:
\* r[row] is the sum over k of second(row, k) * (the sum over c of first(k, c) * vec[c])
IsAppliedInOrder(vec, first, second, r) ==
    /\ IsVectorOf(r, vec.Dimensions)
    /\ \A row \in 0 .. vec.Dimensions - 1 :
          r.m_data[row] =
              Q(SumTo([k \in 0 .. vec.Dimensions - 1 |->
                         Entry(second, row, k)
                             * SumTo([c \in 0 .. vec.Dimensions - 1 |->
                                         Entry(first, k, c) * Component(vec, c)],
                                     vec.Dimensions)],
                      vec.Dimensions))

\* C10 as claimed: (v * A) * B == v * (A * B) for every vector v of length N
\* and all N x N matrices A and B.
C10_AppliesLeftToRight ==
    op = "apply_each" => result = TimesMatrix(v, Multiply(a, b))

\* C10 as amended: (v * A) * B == v * (B * A): applying A and then B to v is
\* applying the product B * A, and v * (A * B) is applying B and then A.
C10_AppliesRightToLeft ==
    /\ op = "apply_each"
          => /\ result = TimesMatrix(v, Multiply(b, a))
             /\ IsAppliedInOrder(v, a, b, result)
    /\ op = "apply_product"
          => /\ result = TimesMatrix(TimesMatrix(v, b), a)
             /\ IsAppliedInOrder(v, b, a, result)

\* C10 witness: transforms a and b that do not commute were applied to v, one
\* after the other
C10_Witness ==
    /\ op = "apply_each"
    /\ Multiply(a, b) # Multiply(b, a)
    /\ result # TimesMatrix(v, Multiply(a, b))

\* C11: translate(vector3(x, y, z)) is the 4x4 identity but for its last row,
\* which is (x, y, z, 1).
C11_TranslateFillsLastRow ==
    op = "translate"
        => /\ IsMatrixOf(result, 4, 4)
           /\ \A r \in 0 .. 3 : \A c \in 0 .. 3 :
                 result.m_data[r][c] =
                     IF r = 3 /\ c < 3 THEN v.m_data[c]
                     ELSE IF r = c THEN One ELSE Zero

\* C12: translate((tx, ty, tz)) multiplied with the point (x, y, z, 1) is
\* (x + tx, y + ty, z + tz, 1).
C12_TranslateMovesPoint ==
    op = "translate_point" /\ b.m_data[3] = One
        => /\ fault = "none"
           /\ IsVectorOf(result, 4)
           /\ \A i \in 0 .. 2 :
                 result.m_data[i] = Q(Component(b, i) + Component(v, i))
           /\ result.m_data[3] = One

\* C12 witness: translate((-16, -16, 0)) moved (0, 32, 0, 1) to (-16, 16, 0, 1)
C12_Witness ==
    /\ op = "translate_point"
    /\ v = TestOffset
    /\ b = TestPoint
    /\ result = IntVector(<<-16, 16, 0, 1>>)

\* C13: v ^ b of two 2-D vectors is the scalar v.x * b.y - v.y * b.x, and the
\* two vectors are left as they were.
C13_Cross2IsXYMinusYX ==
    [][op' = "cross2" /\ op = "none"
          => /\ v' = v /\ b' = b
             /\ fault' = "none"
             /\ result' = Q(Component(v, 0) * Component(b, 1)
                                - Component(v, 1) * Component(b, 0))]_vars

\* C13 witness: (4, 5) ^ (3, 2) returned -7
C13_Witness ==
    /\ op = "cross2"
    /\ v = TestVector45
    /\ b = TestVector32
    /\ result = Q(-7)

\* C14: v ^ b of two 3-D vectors is a 3-D vector whose dot products with v
\* and with b are both 0.
C14_Cross3IsPerpendicular ==
    /\ op = "cross3"
          => /\ IsVectorOf(result, 3)
             /\ SumTo([i \in 0 .. 2 |-> Component(result, i) * Component(v, i)], 3) = 0
             /\ SumTo([i \in 0 .. 2 |-> Component(result, i) * Component(b, i)], 3) = 0
    /\ op = "cross3_dots" => result = <<Zero, Zero>>

\* C14 witness: the cross product of two vectors that are not parallel was
\* taken, and its dot products with them
C14_Witness ==
    /\ op = "cross3_dots"
    /\ v = TestVector3
    /\ Cross3(v, b) # Vector(3, <<>>)
    /\ result = <<Zero, Zero>>

\* C15: normalized() of a vector of length exactly zero returns the zero
\* vector of the same dimension, divides nothing, and leaves the vector as it
\* was.
C15_NormalizedZeroIsZero ==
    [][(/\ op' = "normalized" /\ op = "none"
        /\ \A i \in 0 .. v.Dimensions - 1 : v.m_data[i] = Zero)
          => /\ v' = v
             /\ fault' = "none"
             /\ index' = <<0>>
             /\ IsVectorOf(result', v.Dimensions)
             /\ \A i \in 0 .. v.Dimensions - 1 : result'.m_data[i] = Zero]_vars

\* C15 witness: normalized() was called on the zero vector of length 3
C15_Witness ==
    /\ op = "normalized"
    /\ v = Vector(3, <<>>)
    /\ result = Vector(3, <<>>)

\* the index in the vector that an index selector names: x, y, z, w are 0 to 3
IndexOf(selector) ==
    [swizzle_x |-> 0, swizzle_y |-> 1, swizzle_z |-> 2, swizzle_w |-> 3][selector]

\* C16: swizzle<S1, ..., Sk>() returns a vector of length k whose i-th component
\* is 0 for swizzle_zero, 1 for swizzle_one and v[index] for an index selector
\* below the dimension of v, for k smaller or larger than that dimension, and
\* leaves v as it was.
C16_SwizzleSelects ==
    [][op' = "swizzle" /\ op = "none"
          => /\ v' = v
             /\ fault' = "none"
             /\ IsVectorOf(result', Len(index'))
             /\ \A i \in 1 .. Len(index') :
                   result'.m_data[i - 1] =
                       IF index'[i] = "swizzle_zero" THEN Q(0)
                       ELSE IF index'[i] = "swizzle_one" THEN Q(1)
                       ELSE v.m_data[IndexOf(index'[i])]]_vars

\* C16 witness: (2, 3).swizzle<zero, one, x, y>() returned (0, 1, 2, 3), a
\* vector longer than (2, 3)
C16_Witness ==
    /\ op = "swizzle"
    /\ v = TestVector23
    /\ index = TestSelectors
    /\ result = IntVector(<<0, 1, 2, 3>>)

\* C16 witness of a shorter result: one component of a vector of length 3
C16_WitnessShorter ==
    /\ op = "swizzle"
    /\ v = TestVector3
    /\ index = <<"swizzle_z">>
    /\ result = IntVector(<<3>>)

\* the real x is the real y times n / d and times pi^k
IsTimes(x, y, n, d, k) ==
    IF y.coef = Zero THEN x = y
    ELSE /\ x.pi = y.pi + k
         /\ x.coef[2] > 0
         /\ x.coef[1] * y.coef[2] * d = y.coef[1] * n * x.coef[2]

\* C17: an angle made from an angle of the other unit holds the value times
\* pi/180 (degrees to radians) or times 180/pi (radians to degrees), once; made
\* from an angle of the same unit it holds the same value; and a radians angle
\* of 0 after += degrees(180) is radians pi.
C17_ConversionMultipliesOnce ==
    [][/\ op' = "convert" /\ op = "none"
          => /\ a' = a
             /\ result'.unit = index'[1]
             /\ a.unit = index'[1] => result'.m_angle = a.m_angle
             /\ a.unit = "degrees" /\ index'[1] = "radians"
                   => IsTimes(result'.m_angle, a.m_angle, 1, 180, 1)
             /\ a.unit = "radians" /\ index'[1] = "degrees"
                   => IsTimes(result'.m_angle, a.m_angle, 180, 1, -1)
       /\ (/\ op' = "plus_assign" /\ op = "none"
           /\ a = [unit |-> "radians", m_angle |-> [coef |-> <<0, 1>>, pi |-> 0]]
           /\ b = [unit |-> "degrees", m_angle |-> [coef |-> <<180, 1>>, pi |-> 0]])
          => a' = [unit |-> "radians", m_angle |-> [coef |-> <<1, 1>>, pi |-> 1]]]_vars

\* C17 witness: degrees(90) was converted to radians pi/2
C17_Witness ==
    /\ op = "convert"
    /\ a = Degrees(Number(90))
    /\ result = [unit |-> "radians", m_angle |-> [coef |-> <<1, 2>>, pi |-> 1]]

\* C17 witness of the sum: radians 0 became radians pi by += degrees(180)
C17_WitnessSum ==
    /\ op = "plus_assign"
    /\ b = Degrees(Number(180))
    /\ a = Radians(Pi)

\* C18: after normalize() the angle is in [0, 360) in degrees and in
\* [0, 2*pi) in radians (pi is between 3 and 4: a number of radians below 6 is
\* below 2*pi).
C18_NormalizeIsInRange ==
    op = "normalize"
        => /\ a.m_angle.coef[1] >= 0
           /\ a.unit = "degrees" /\ a.m_angle.pi = 0
                 => ScalarLess(a.m_angle.coef, Q(360))
           /\ a.unit = "radians" /\ a.m_angle.pi = 1
                 => ScalarLess(a.m_angle.coef, Q(2))

\* C19: a factory called through any angle type returns a radians angle that
\* holds the radian result of the function.
C19_FactoryReturnsRadians ==
    op = "factory"
        => /\ result.unit = "radians"
           /\ result.m_angle = Std(index[2], index[3])

\* the integers (top, left, bottom, right) of a rectangle
Sides(r) == [i \in 1 .. 4 |-> r.m_values[i - 1][1]]

IntMax(x, y) == IF x >= y THEN x ELSE y

IntMin(x, y) == IF x <= y THEN x ELSE y

\* C20: a.intersection(b) is the rectangle (max of the tops, max of the lefts,
\* min of the bottoms, min of the rights) and leaves a and b as they were;
\* rectangle(point(x, y), size(w, h)) has top y, left x, bottom y + h and right
\* x + w; offset(size(w, h)) adds h to top and bottom and w to left and right.
C20_IntersectionIsMaxMin ==
    [][/\ op' = "intersection"
          => /\ a' = a /\ b' = b
             /\ fault' = "none"
             /\ DOMAIN result'.m_values = 0 .. 3
             /\ Sides(result') =
                    <<IntMax(Sides(a)[1], Sides(b)[1]), IntMax(Sides(a)[2], Sides(b)[2]),
                      IntMin(Sides(a)[3], Sides(b)[3]), IntMin(Sides(a)[4], Sides(b)[4])>>
       /\ op' = "construct"
          => Sides(result') =
                 <<index'[2][1], index'[1][1],
                   index'[2][1] + index'[4][1], index'[1][1] + index'[3][1]>>
       /\ op' = "offset"
          => Sides(b') =
                 <<Sides(b)[1] + index'[2][1], Sides(b)[2] + index'[1][1],
                   Sides(b)[3] + index'[2][1], Sides(b)[4] + index'[1][1]>>]_vars

\* C20 witness: rectangle(point(100,100), size(100,100)) intersected with its
\* copy moved by (50,50) is rectangle(150,150,200,200)
C20_Witness ==
    /\ op = "intersection"
    /\ a = Rectangle(Q(100), Q(100), Q(200), Q(200))
    /\ b = Rectangle(Q(150), Q(150), Q(250), Q(250))
    /\ result = Rectangle(Q(150), Q(150), Q(200), Q(200))

\* C21: at(row, column) of a matrix fails with an out-of-range failure when
\* row >= Rows or column >= Columns, at(index) of a vector when index >= N, and
\* with the indices in range both return the stored element, the one
\* operator() and operator[] return.
C21_AtIsChecked ==
    /\ op = "matrix_at"
          => IF index[1] >= a.Rows \/ index[2] >= a.Columns
             THEN fault = "out_of_range" /\ result = NoResult
             ELSE fault = "none" /\ result = a.m_data[index[1]][index[2]]
    /\ op = "matrix_get" => fault = "none" /\ result = a.m_data[index[1]][index[2]]
    /\ op = "vector_at"
          => IF index[1] >= v.Dimensions
             THEN fault = "out_of_range" /\ result = NoResult
             ELSE fault = "none" /\ result = v.m_data[index[1]]
    /\ op = "vector_get" => fault = "none" /\ result = v.m_data[index[1]]

\* C21 witness: at(0, 3) of a 2 x 3 matrix, a column that is out of range at an
\* address that is inside the storage, failed
C21_Witness ==
    /\ op = "matrix_at"
    /\ a = TestMatrix23
    /\ index = <<0, 3>>
    /\ fault = "out_of_range"

\* C21 witness of the element: at(1, 2) of the same matrix returned 6
C21_WitnessInRange ==
    /\ op = "matrix_at"
    /\ a = TestMatrix23
    /\ index = <<1, 2>>
    /\ result = Q(6)

\* C22: at(i) and operator()(i) of a Rows x Columns matrix return, for every
\* i < Rows * Columns, the scalar m(i / Columns, i % Columns), and at(i) fails
\* only for i >= Rows * Columns.
C22_FlatAccessIsRowMajor ==
    op \in {"flat_at", "flat_get"} /\ index[1] < a.Rows * a.Columns
        => /\ fault = "none"
           /\ result = a.m_data[index[1] \div a.Columns][index[1] % a.Columns]

\* C23: the assignment of an angle of another unit ends after a bounded
\* number of steps, the receiver holding the value of the source converted once
\* to its unit, and returns the receiver: operator= is entered once, is never
\* entered again from its own body, and does not fail.
C23_CrossAssignTerminates ==
    /\ op = "cross_assign" => index[1] = 1
    /\ fault = "none"
    /\ op = "assigned" /\ a.unit # b.unit
          => a = Convert(a.unit, b) /\ result = a

\* a rectangle of positive width and height
IsValid(r) == Sides(r)[1] < Sides(r)[3] /\ Sides(r)[2] < Sides(r)[4]

\* C24: for two rectangles of positive width and height, a.intersects(b) is
\* true exactly when max(a.left, b.left) < min(a.right, b.right) and
\* max(a.top, b.top) < min(a.bottom, b.bottom), for every scalar type, the
\* unsigned ones included: disjoint rectangles give false.
C24_IntersectsIffOverlap ==
    op = "intersects" /\ IsValid(a) /\ IsValid(b)
        => result = (/\ IntMax(Sides(a)[2], Sides(b)[2]) < IntMin(Sides(a)[4], Sides(b)[4])
                     /\ IntMax(Sides(a)[1], Sides(b)[1]) < IntMin(Sides(a)[3], Sides(b)[3]))

\* C24 for rectangle<float> alone
C24_FloatIntersectsIffOverlap ==
    op = "intersects" /\ index = <<"float">> /\ IsValid(a) /\ IsValid(b)
        => result = (/\ IntMax(Sides(a)[2], Sides(b)[2]) < IntMin(Sides(a)[4], Sides(b)[4])
                     /\ IntMax(Sides(a)[1], Sides(b)[1]) < IntMin(Sides(a)[3], Sides(b)[3]))

\* C25: after v *= w of two vectors of the same length every component of v is
\* the dot product of the old v with w, and w is as it was.
C25_TimesAssignBroadcastsDot ==
    [][op' = "times_assign" /\ op = "none"
          => /\ b' = b
             /\ fault' = "none"
             /\ IsVectorOf(v', v.Dimensions)
             /\ \A i \in 0 .. v.Dimensions - 1 :
                   v'.m_data[i] =
                       Q(SumTo([k \in 0 .. v.Dimensions - 1 |->
                                   Component(v, k) * Component(b, k)], v.Dimensions))]_vars

\* C25 witness: (4, 5) *= (3, 2) left the vector whose
\* components are both the dot product 22
C25_Witness ==
    /\ op = "times_assign"
    /\ b = TestVector32
    /\ v = IntVector(<<22, 22>>)

====
